---- MODULE Spec2Model ----
(***************************************************************************)
(* A model of scraper.py: the WebScraper crawl loop (run), the page fetch  *)
(* with retries (fetch_page), link and file extraction                     *)
(* (extract_links_and_files) and the download pipeline (download_file).    *)
(*                                                                         *)
(* Strings are sequences of one-character strings, so that endswith,      *)
(* basename, unquote, the sanitising filter, strip and splitext are        *)
(* computed character by character as the code computes them.  A percent  *)
(* escape ("%2F") is one element of a path: it is what unquote decodes.    *)
(* A URL is a record [netloc, path, frag] (scheme https, no query).        *)
(***************************************************************************)
EXTENDS Integers, Sequences, FiniteSets, TLC

VARIABLES
    base_url, domain, target_extensions,   \* WebScraper.__init__
    queue, visited_urls,                   \* the BFS queue and the visited set
    dirs, files,                           \* the filesystem under downloads/
    pc, caller,                            \* control location; who called download_file
    current_url, i, response, trace,       \* run / fetch_page locals
    tags, imgs, new_links,                 \* extract_links_and_files locals
    arg_url, file_url, filename, ext, folder,   \* download_file argument and locals
    fetchCalls, fileGets, calls,           \* history: fetch_page calls, download GETs, download_file calls
    htmlPages                              \* history: the URLs whose page was parsed as HTML

vars == <<base_url, domain, target_extensions, queue, visited_urls, dirs, files,
          pc, caller, current_url, i, response, trace, tags, imgs, new_links,
          arg_url, file_url, filename, ext, folder, fetchCalls, fileGets, calls,
          htmlPages>>

-----------------------------------------------------------------------------
(* Bounds of the model *)

\* longest body of a final path segment drawn for a direct download_file call
MaxLen == 3

\* number of direct download_file calls in a row
MaxCalls == 2

\* longest string drawn as an argument of a direct get_download_folder call
MaxExtLen == 3

-----------------------------------------------------------------------------
(* Characters and strings *)

LowerLetters == {"a","b","c","d","e","f","g","h","i","j","k","l","m",
                 "n","o","p","q","r","s","t","u","v","w","x","y","z"}

UpperLetters == {"D","F","P"}

Digits == {"0","1","2","3","4","5","6","7","8","9"}

\* str.lower() on one character
Lower(c) ==
    CASE c = "D" -> "d"
      [] c = "F" -> "f"
      [] c = "P" -> "p"
      [] OTHER -> c

LowerStr(s) == [k \in 1..Len(s) |-> Lower(s[k])]

\* str.endswith
EndsWith(s, suf) ==
    /\ Len(suf) <= Len(s)
    /\ SubSeq(s, Len(s) - Len(suf) + 1, Len(s)) = suf

\* index of the last occurrence of character c in s, 0 when there is none
LastIndexOf(s, c) ==
    IF \E k \in 1..Len(s) : s[k] = c
    THEN CHOOSE k \in 1..Len(s) : s[k] = c /\ \A m \in (k+1)..Len(s) : s[m] # c
    ELSE 0

\* os.path.basename: what follows the last "/"
Basename(p) == SubSeq(p, LastIndexOf(p, "/") + 1, Len(p))

\* urllib.parse.unquote, one path element at a time
UnquoteChar(c) ==
    CASE c = "%2F" -> "/"
      [] c = "%2E" -> "."
      [] c = "%20" -> " "
      [] OTHER -> c

Unquote(s) == [k \in 1..Len(s) |-> UnquoteChar(s[k])]

\* a filter that drops the dot as well
KeepCharNoDot(c) ==
    \/ c \in LowerLetters \cup UpperLetters
    \/ c \in Digits
    \/ c \in {" ", "_", "-"}

\* c.isalpha() or c.isdigit() or c in (' ', '.', '_', '-')
KeepChar(c) ==
    \/ c \in LowerLetters \cup UpperLetters
    \/ c \in Digits
    \/ c \in {" ", ".", "_", "-"}

\* "".join([c for c in filename if ...])
RECURSIVE Filter(_)
Filter(s) ==
    IF s = <<>> THEN <<>>
    ELSE IF KeepChar(Head(s)) THEN <<Head(s)>> \o Filter(Tail(s))
    ELSE Filter(Tail(s))

\* str.strip(): of the kept characters only the space is whitespace
RECURSIVE LStrip(_)
LStrip(s) ==
    IF s # <<>> /\ Head(s) = " " THEN LStrip(Tail(s)) ELSE s

RECURSIVE RStrip(_)
RStrip(s) ==
    IF s # <<>> /\ s[Len(s)] = " " THEN RStrip(SubSeq(s, 1, Len(s) - 1)) ELSE s

Strip(s) == RStrip(LStrip(s))

\* the cleaning step of download_file, with the placeholder for an empty name
Sanitize(name) ==
    LET cleaned == Strip(Filter(name))
    IN IF cleaned = <<>>
       THEN <<"d","o","w","n","l","o","a","d","e","d","_","f","i","l","e">>
       ELSE cleaned

\* os.path.splitext(filename)[1]: from the last dot on, unless only dots precede it
SplitExt(name) ==
    LET d == LastIndexOf(name, ".")
    IN IF d = 0 \/ \A k \in 1..(d-1) : name[k] = "."
       THEN <<>>
       ELSE SubSeq(name, d, Len(name))

-----------------------------------------------------------------------------
(* FILE_TYPES and the classifier *)

FILE_TYPES ==
    << [folder |-> "pdf",    exts |-> << <<".","p","d","f">> >>],
       [folder |-> "docs",   exts |-> << <<".","d","o","c">>, <<".","d","o","c","x">>,
                                         <<".","t","x","t">>, <<".","r","t","f">> >>],
       [folder |-> "ppt",    exts |-> << <<".","p","p","t">>, <<".","p","p","t","x">> >>],
       [folder |-> "xls",    exts |-> << <<".","x","l","s">>, <<".","x","l","s","x">>,
                                         <<".","c","s","v">> >>],
       [folder |-> "zip",    exts |-> << <<".","z","i","p">>, <<".","r","a","r">>,
                                         <<".","7","z">>, <<".","t","a","r">>,
                                         <<".","g","z">> >>],
       [folder |-> "images", exts |-> << <<".","j","p","g">>, <<".","j","p","e","g">>,
                                         <<".","p","n","g">>, <<".","g","i","f">>,
                                         <<".","b","m","p">>, <<".","s","v","g">> >>] >>

SeqToSet(s) == {s[k] : k \in 1..Len(s)}

Folders == {FILE_TYPES[k].folder : k \in 1..Len(FILE_TYPES)}

ExtsOf(f) == UNION {SeqToSet(FILE_TYPES[k].exts) : k \in {m \in 1..Len(FILE_TYPES) : FILE_TYPES[m].folder = f}}

\* a classifier that matches a listed extension by its beginning
get_download_folder_prefix(extension) ==
    LET hits == {k \in 1..Len(FILE_TYPES) :
                    \E x \in SeqToSet(FILE_TYPES[k].exts) :
                        /\ Len(extension) <= Len(x)
                        /\ SubSeq(x, 1, Len(extension)) = extension}
    IN IF hits = {} THEN "others"
       ELSE FILE_TYPES[CHOOSE k \in hits : \A m \in hits : k <= m].folder

\* the first folder of FILE_TYPES, in dictionary order, that lists the extension
get_download_folder(extension) ==
    LET hits == {k \in 1..Len(FILE_TYPES) : extension \in SeqToSet(FILE_TYPES[k].exts)}
    IN IF hits = {} THEN "others"
       ELSE FILE_TYPES[CHOOSE k \in hits : \A m \in hits : k <= m].folder

-----------------------------------------------------------------------------
(* URLs *)

Url(n, p, f) == [netloc |-> n, path |-> p, frag |-> f]

\* the empty string as a URL
NoUrl == Url("", <<>>, "")

\* urljoin(current_url, href) for the three shapes of reference the pages use:
\* an absolute URL, an absolute path, and a bare fragment (or the empty href)
urljoin(base, href) ==
    IF href.netloc # "" THEN href
    ELSE IF href.path # <<>> THEN Url(base.netloc, href.path, href.frag)
    ELSE IF href.frag # "" THEN Url(base.netloc, base.path, href.frag)
    ELSE base

\* full_url.split('#')[0]
StripFragment(u) == Url(u.netloc, u.path, "")

\* the extension lists get_extensions_by_mode hands to the scraper
PdfExtensions == ExtsOf("pdf")

AllExtensions == UNION {ExtsOf(f) : f \in Folders}

\* a check that lets every host through
is_internal_link_open(url) == TRUE

\* urlparse(url).netloc == self.domain

is_internal_link(url) == url.netloc = domain

\* any(path.endswith(ext) for ext in self.target_extensions), on the lower-cased path
is_target_file(url) ==
    \E e \in target_extensions : EndsWith(LowerStr(url.path), e)

-----------------------------------------------------------------------------
(* The site that is crawled: what the pages served for each URL refer to *)

PathA == <<"/","a",".","h","t","m","l">>

PathB == <<"/","b",".","h","t","m","l">>

PathC == <<"/","c",".","h","t","m","l">>

PathP == <<"/","p",".","h","t","m","l">>

PathDoc == <<"/","d","o","c",".","p","d","f">>

PathDocUpper == <<"/","d","o","c","s","/","D","O","C",".","P","D","F">>

PathX == <<"/","x",".","p","d","f">>

PathImg == <<"/","i",".","p","n","g">>

PathY == <<"/","y">>

SeedExample == Url("example.com", <<>>, "")

SeedFragment == Url("x", PathY, "a")

Seeds == {SeedExample, SeedFragment}

\* the references (a and link tags with href) of the page served for a URL
Refs(u) ==
    CASE u.netloc = "example.com" /\ u.path = <<>> ->
           << Url("", PathA, ""), Url("", PathDoc, ""), Url("other.com", PathX, "") >>
      [] u.netloc = "example.com" /\ u.path = PathA ->
           << Url("", <<>>, "top"), Url("", PathB, ""), Url("", PathB, "s"),
              Url("", PathC, ""), Url("other.com", PathP, ""), Url("", PathDoc, "") >>
      [] u.netloc = "example.com" /\ u.path = PathB ->
           << Url("", PathA, ""), Url("", PathC, ""), Url("[", <<>>, "") >>
      [] u.netloc = "example.com" /\ u.path = PathC ->
           << Url("", PathDocUpper, "") >>
      [] u.netloc = "x" /\ u.path = PathY ->
           << Url("", <<>>, "b"), Url("x", PathY, "b") >>
      [] OTHER -> << >>

\* the image sources (img tags with src) of the page served for a URL
Srcs(u) ==
    CASE u.netloc = "example.com" /\ u.path = PathA ->
           << Url("", PathImg, ""), Url("", PathP, "") >>
      [] OTHER -> << >>

-----------------------------------------------------------------------------
(* The filesystem under downloads/ *)

\* "." and ".." name directories, never files
IsDirName(name) == name \in { <<".">>, <<".", ".">> }

\* a duplicate check that never finds the file
ExistsNever(fo, name) == FALSE

\* a duplicate check that remembers the URLs written so far, not the paths
ExistsByUrl(fo, name) ==
    \E k \in 1..Len(calls) :
        /\ calls[k].url = file_url
        /\ calls[k].outcome \in {"downloaded", "stream_failed"}

\* os.path.exists(save_path)

Exists(fo, name) ==
    IF IsDirName(name) THEN fo \in dirs
    ELSE \E f \in files : f.folder = fo /\ f.name = name

\* open(save_path, 'wb') can succeed: the folder is there and the name is no directory
CanOpen(fo, name) == fo \in dirs /\ ~IsDirName(name)

-----------------------------------------------------------------------------
(* The initial state: a WebScraper as __init__ leaves it *)

\* retries = 3 in fetch_page
retries == 3

\* fetch_page's None
NoResponse == [status |-> "None", ctype |-> ""]

\* what one GET of a page can end in: a response (200 with an HTML or another
\* content type, 404, 403, any other status) or a raised RequestException
PageOutcomes == {"200html", "200other", "404", "403", "500", "error"}

\* what the GET of a file can end in: a raised exception, a status that
\* raise_for_status rejects, a 2xx response
FileOutcomes == {"error", "bad_status", "ok"}

\* __init__ for a seed and an extension list; create_directories makes the
\* FILE_TYPES folders only, an "others" folder exists only if it was there before
InitScraper(seed, exts) ==
    /\ base_url = seed
    /\ domain = seed.netloc
    /\ target_extensions = exts
    /\ queue = <<>>
    /\ visited_urls = {}
    /\ dirs \in {Folders, Folders \cup {"others"}}
    /\ files = {}
    /\ caller = ""
    /\ current_url = NoUrl
    /\ i = 0
    /\ response = NoResponse
    /\ trace = <<>>
    /\ tags = <<>>
    /\ imgs = <<>>
    /\ new_links = <<>>
    /\ file_url = NoUrl
    /\ filename = <<>>
    /\ ext = <<>>
    /\ folder = ""
    /\ fetchCalls = <<>>
    /\ fileGets = <<>>
    /\ calls = <<>>
    /\ htmlPages = {}

Init ==
    /\ \E seed \in Seeds, exts \in {PdfExtensions, AllExtensions} : InitScraper(seed, exts)
    /\ arg_url = NoUrl
    /\ pc = "start"

-----------------------------------------------------------------------------
(* run: the crawl loop *)

runVars == <<queue, visited_urls, current_url, fetchCalls>>

fetchVars == <<i, response, trace>>

extractVars == <<tags, imgs, new_links>>

downloadVars == <<file_url, filename, ext, folder, dirs, files, fileGets, calls, caller>>

constVars == <<base_url, domain, target_extensions, arg_url>>

\* self.queue.put(self.base_url)
RunStart ==
    /\ pc = "start"
    /\ queue' = Append(queue, base_url)
    /\ pc' = "loop"
    /\ UNCHANGED <<visited_urls, current_url, fetchCalls>>
    /\ UNCHANGED <<fetchVars, extractVars, downloadVars, constVars, htmlPages>>

\* a loop that never skips a dequeued URL
AlreadyVisitedNever(u) == FALSE

\* if current_url in self.visited_urls: continue

AlreadyVisited(u) == u \in visited_urls

\* one turn of the while loop up to the call of fetch_page
Dequeue ==
    /\ pc = "loop"
    /\ queue # <<>>
    /\ current_url' = Head(queue)
    /\ queue' = Tail(queue)
    /\ IF AlreadyVisited(Head(queue))
       THEN /\ pc' = "loop"
            /\ UNCHANGED <<visited_urls, fetchCalls, fetchVars>>
       ELSE /\ visited_urls' = visited_urls \cup {Head(queue)}
            /\ fetchCalls' = Append(fetchCalls, Head(queue))
            /\ i' = 0
            /\ response' = NoResponse
            /\ trace' = <<>>
            /\ pc' = "fetch"
    /\ UNCHANGED <<extractVars, downloadVars, constVars, htmlPages>>

\* while not self.queue.empty() ends the loop
LoopExit ==
    /\ pc = "loop"
    /\ queue = <<>>
    /\ pc' = "done"
    /\ UNCHANGED <<runVars, fetchVars, extractVars, downloadVars, constVars, htmlPages>>

-----------------------------------------------------------------------------
(* fetch_page *)

\* a fetch that treats 404 like any other status and goes on to the next attempt
FetchGetRetry404(o) ==
    /\ pc = "fetch"
    /\ i < retries
    /\ IF o \in {"200html", "200other"}
       THEN /\ response' = [status |-> "200", ctype |-> IF o = "200html" THEN "text/html" ELSE "other"]
            /\ trace' = Append(trace, "200")
            /\ i' = i
            /\ pc' = "fetched"
       ELSE IF o = "403"
       THEN /\ response' = NoResponse
            /\ trace' = Append(trace, o)
            /\ i' = i
            /\ pc' = "fetched"
       ELSE IF o \in {"500", "404"}
       THEN /\ trace' = Append(trace, o)
            /\ i' = i + 1
            /\ pc' = "fetch"
            /\ UNCHANGED response
       ELSE /\ trace' = Append(trace, "error")
            /\ pc' = "sleep"
            /\ UNCHANGED <<i, response>>
    /\ UNCHANGED <<runVars, extractVars, downloadVars, constVars, htmlPages>>

\* one requests.get of the for loop and what the code does with its outcome
FetchGetStep(o) ==
    /\ pc = "fetch"
    /\ i < retries
    /\ IF o \in {"200html", "200other"}
       THEN /\ response' = [status |-> "200", ctype |-> IF o = "200html" THEN "text/html" ELSE "other"]
            /\ trace' = Append(trace, "200")
            /\ i' = i
            /\ pc' = "fetched"
       ELSE IF o \in {"404", "403"}
       THEN /\ response' = NoResponse
            /\ trace' = Append(trace, o)
            /\ i' = i
            /\ pc' = "fetched"
       ELSE IF o = "500"
       THEN /\ trace' = Append(trace, o)
            /\ i' = i + 1
            /\ pc' = "fetch"
            /\ UNCHANGED response
       ELSE /\ trace' = Append(trace, "error")
            /\ pc' = "sleep"
            /\ UNCHANGED <<i, response>>
    /\ UNCHANGED <<runVars, extractVars, downloadVars, constVars, htmlPages>>

FetchGet == \E o \in PageOutcomes : FetchGetStep(o)

\* time.sleep(2) in the except clause, then the next turn of the for loop
FetchSleep ==
    /\ pc = "sleep"
    /\ trace' = Append(trace, "sleep")
    /\ i' = i + 1
    /\ pc' = "fetch"
    /\ UNCHANGED response
    /\ UNCHANGED <<runVars, extractVars, downloadVars, constVars, htmlPages>>

\* a for loop that gives up after the first failed attempt
FetchExhaustedEarly ==
    /\ pc = "fetch"
    /\ i >= 1
    /\ response' = NoResponse
    /\ pc' = "fetched"
    /\ UNCHANGED <<i, trace>>
    /\ UNCHANGED <<runVars, extractVars, downloadVars, constVars, htmlPages>>

\* the for loop is over: return None
FetchExhausted ==
    /\ pc = "fetch"
    /\ i = retries
    /\ response' = NoResponse
    /\ pc' = "fetched"
    /\ UNCHANGED <<i, trace>>
    /\ UNCHANGED <<runVars, extractVars, downloadVars, constVars, htmlPages>>

-----------------------------------------------------------------------------
(* extract_links_and_files, and the lines of run around it *)

\* a loop that parses every response it got, whatever its content type
AfterFetchAnyType ==
    /\ pc = "fetched"
    /\ IF response # NoResponse
       THEN /\ tags' = Refs(current_url)
            /\ imgs' = Srcs(current_url)
            /\ new_links' = <<>>
            /\ htmlPages' = htmlPages \cup {current_url}
            /\ pc' = "tags"
       ELSE /\ pc' = "loop"
            /\ UNCHANGED <<extractVars, htmlPages>>
    /\ UNCHANGED <<runVars, fetchVars, downloadVars, constVars>>

\* if response: ... if 'text/html' in content_type: the extraction starts
AfterFetch ==
    /\ pc = "fetched"
    /\ IF response # NoResponse /\ response.ctype = "text/html"
       THEN /\ tags' = Refs(current_url)
            /\ imgs' = Srcs(current_url)
            /\ new_links' = <<>>
            /\ htmlPages' = htmlPages \cup {current_url}
            /\ pc' = "tags"
       ELSE /\ pc' = "loop"
            /\ UNCHANGED <<extractVars, htmlPages>>
    /\ UNCHANGED <<runVars, fetchVars, downloadVars, constVars>>

\* the call self.download_file(full_url), from the loop named by `from`
CallDownload(u, from) ==
    /\ file_url' = u
    /\ caller' = from
    /\ pc' = "dl_begin"
    /\ UNCHANGED <<filename, ext, folder, dirs, files, fileGets, calls>>

\* is_target_file(full_url) decides first, whatever the host of full_url
WantsDownload(u) == is_target_file(u)

\* urljoin (and urlparse) raise ValueError on a reference with an unclosed
\* bracket in its netloc ("Invalid IPv6 URL")
Raises(href) == href.netloc = "["

\* one turn of the loop over the a and link tags; a ValueError is caught
\* nowhere: it leaves extract_links_and_files and run
ExtractTag ==
    /\ pc = "tags"
    /\ tags # <<>>
    /\ tags' = Tail(tags)
    /\ LET full_url == StripFragment(urljoin(current_url, Head(tags)))
       IN IF Raises(Head(tags))
          THEN /\ pc' = "crashed"
               /\ UNCHANGED <<new_links, downloadVars>>
          ELSE IF full_url = NoUrl
          THEN UNCHANGED <<pc, new_links, downloadVars>>
          ELSE IF WantsDownload(full_url)
          THEN /\ CallDownload(full_url, "tags")
               /\ UNCHANGED new_links
          ELSE IF is_internal_link(full_url) /\ full_url \notin visited_urls
          THEN /\ new_links' = Append(new_links, full_url)
               /\ UNCHANGED <<pc, downloadVars>>
          ELSE UNCHANGED <<pc, new_links, downloadVars>>
    /\ UNCHANGED imgs
    /\ UNCHANGED <<runVars, fetchVars, constVars, htmlPages>>

\* return new_links, and run's loop: for link in links: if link not in
\* self.visited_urls: self.queue.put(link)
ExtractReturn ==
    /\ queue' = queue \o SelectSeq(new_links, LAMBDA l : l \notin visited_urls)
    /\ pc' = "loop"
    /\ UNCHANGED <<visited_urls, current_url, fetchCalls>>
    /\ UNCHANGED <<fetchVars, extractVars, downloadVars, constVars, htmlPages>>

\* if any(ext in self.target_extensions for ext in FILE_TYPES['images'])
ScansImages == ExtsOf("images") \cap target_extensions # {}

\* the loop over the tags is over
TagsDone ==
    /\ pc = "tags"
    /\ tags = <<>>
    /\ IF ScansImages
       THEN /\ pc' = "imgs"
            /\ UNCHANGED <<runVars, fetchVars, extractVars, downloadVars, constVars, htmlPages>>
       ELSE ExtractReturn

\* one turn of the loop over the img tags
ExtractImg ==
    /\ pc = "imgs"
    /\ imgs # <<>>
    /\ imgs' = Tail(imgs)
    /\ LET full_url == urljoin(current_url, Head(imgs))
       IN IF Raises(Head(imgs))
          THEN /\ pc' = "crashed"
               /\ UNCHANGED downloadVars
          ELSE IF is_target_file(full_url)
          THEN CallDownload(full_url, "imgs")
          ELSE UNCHANGED <<pc, downloadVars>>
    /\ UNCHANGED <<tags, new_links>>
    /\ UNCHANGED <<runVars, fetchVars, constVars, htmlPages>>

\* the loop over the img tags is over
ImgsDone ==
    /\ pc = "imgs"
    /\ imgs = <<>>
    /\ ExtractReturn

-----------------------------------------------------------------------------
(* download_file *)

\* download_file returns (or its except clause has caught the failure)
DownloadReturn(outcome) ==
    /\ calls' = Append(calls, [url |-> file_url, outcome |-> outcome])
    /\ pc' = caller

\* a filename that is decoded but not cleaned
DerivedNameKeepAll(u) == Unquote(Basename(u.path))

\* filename = unquote(os.path.basename(parsed_url.path)), cleaned

DerivedName(u) == Sanitize(Unquote(Basename(u.path)))

\* the filename, the folder, and the check for a duplicate
DownloadBegin ==
    /\ pc = "dl_begin"
    /\ filename' = DerivedName(file_url)
    /\ ext' = SplitExt(filename')
    /\ folder' = get_download_folder(LowerStr(ext'))
    /\ IF Exists(folder', filename')
       THEN DownloadReturn("skipped")
       ELSE /\ pc' = "dl_get"
            /\ UNCHANGED calls
    /\ UNCHANGED <<file_url, dirs, files, fileGets, caller>>
    /\ UNCHANGED <<runVars, fetchVars, extractVars, constVars, htmlPages>>

\* requests.get(file_url, stream=True) and r.raise_for_status()
DownloadGetStep(o) ==
    /\ pc = "dl_get"
    /\ fileGets' = Append(fileGets, file_url)
    /\ IF o = "ok"
       THEN /\ pc' = "dl_open"
            /\ UNCHANGED calls
       ELSE DownloadReturn(o)
    /\ UNCHANGED <<file_url, filename, ext, folder, dirs, files, caller>>
    /\ UNCHANGED <<runVars, fetchVars, extractVars, constVars, htmlPages>>

DownloadGet == \E o \in FileOutcomes : DownloadGetStep(o)

\* open(save_path, 'wb'): creates or truncates the file, or raises
DownloadOpenStep(ok) ==
    /\ pc = "dl_open"
    /\ IF ok /\ CanOpen(folder, filename)
       THEN /\ files' = {f \in files : ~(f.folder = folder /\ f.name = filename)}
                          \cup {[folder |-> folder, name |-> filename, complete |-> FALSE]}
            /\ pc' = "dl_stream"
            /\ UNCHANGED calls
       ELSE /\ DownloadReturn("open_failed")
            /\ UNCHANGED files
    /\ UNCHANGED <<file_url, filename, ext, folder, dirs, fileGets, caller>>
    /\ UNCHANGED <<runVars, fetchVars, extractVars, constVars, htmlPages>>

DownloadOpen == \E ok \in BOOLEAN : DownloadOpenStep(ok)

\* for chunk in r.iter_content(...): f.write(chunk), to the end or to a failure
DownloadStreamStep(ok) ==
    /\ pc = "dl_stream"
    /\ IF ok
       THEN /\ files' = {f \in files : ~(f.folder = folder /\ f.name = filename)}
                          \cup {[folder |-> folder, name |-> filename, complete |-> TRUE]}
            /\ DownloadReturn("downloaded")
       ELSE /\ DownloadReturn("stream_failed")
            /\ UNCHANGED files
    /\ UNCHANGED <<file_url, filename, ext, folder, dirs, fileGets, caller>>
    /\ UNCHANGED <<runVars, fetchVars, extractVars, constVars, htmlPages>>

DownloadStream == \E ok \in BOOLEAN : DownloadStreamStep(ok)

-----------------------------------------------------------------------------
(* The crawl *)

\* the places of run's try block, where a KeyboardInterrupt can arrive
RunningPcs == {"loop", "fetch", "sleep", "fetched", "tags", "imgs",
               "dl_begin", "dl_get", "dl_open", "dl_stream"}

\* Ctrl+C: KeyboardInterrupt is no Exception and no RequestException, so neither
\* download_file nor fetch_page catches it; it reaches run's except clause from
\* wherever it arrives, and a file open for writing is closed as it is
Interrupt ==
    /\ pc \in RunningPcs
    /\ pc' = "cancelled"
    /\ UNCHANGED <<runVars, fetchVars, extractVars, downloadVars, constVars, htmlPages>>

Next ==
    \/ RunStart
    \/ Dequeue
    \/ LoopExit
    \/ FetchGet
    \/ FetchSleep
    \/ FetchExhausted
    \/ AfterFetch
    \/ ExtractTag
    \/ TagsDone
    \/ ExtractImg
    \/ ImgsDone
    \/ DownloadBegin
    \/ DownloadGet
    \/ DownloadOpen
    \/ DownloadStream
    \/ Interrupt

Spec == Init /\ [][Next]_vars

-----------------------------------------------------------------------------
(* download_file called directly, MaxCalls times in a row on one file URL *)

\* the characters the final path segments are drawn from: a letter, the dot,
\* the separator and its percent escape, the space, a character the filter drops
DirectChars == {"a", ".", "/", "%2F", " ", "$"}

\* the endings of the drawn paths: none, a listed extension, the same in capitals
DirectEndings == { <<>>, <<".","p","d","f">>, <<".","P","D","F">> }

BoundedSeqs(S, n) == UNION {[1..k -> S] : k \in 0..n}

\* the path whose final segment decodes to "../../etc/passwd"
TraversalPath ==
    <<"/", ".", ".", "%2F", ".", ".", "%2F", "e","t","c", "%2F", "p","a","s","s","w","d">>

DirectPaths ==
    {<<"/">> \o body \o ending : body \in BoundedSeqs(DirectChars, MaxLen), ending \in DirectEndings}
        \cup {TraversalPath}

InitDownload ==
    /\ InitScraper(SeedExample, PdfExtensions)
    /\ \E p \in DirectPaths : arg_url = Url("example.com", p, "")
    /\ pc = "direct"

\* another URL with the final path segment of u
Alias(u) == Url(u.netloc, <<"/", "v">> \o u.path, u.frag)

\* scraper.download_file(u): first on arg_url, then on it or on its alias
DirectCall ==
    /\ pc = "direct"
    /\ Len(calls) < MaxCalls
    /\ \E u \in (IF calls = <<>> THEN {arg_url} ELSE {arg_url, Alias(arg_url)}) :
          CallDownload(u, "direct")
    /\ UNCHANGED <<runVars, fetchVars, extractVars, constVars, htmlPages>>

NextDownload ==
    \/ DirectCall
    \/ DownloadBegin
    \/ DownloadGet
    \/ DownloadOpen
    \/ DownloadStream

SpecDownload == InitDownload /\ [][NextDownload]_vars

-----------------------------------------------------------------------------
(* fetch_page called directly on one URL.  Every step of the call returns:   *)
(* requests.get carries timeout=10 and time.sleep(2) ends, hence the        *)
(* fairness condition.                                                       *)

\* the URLs fetch_page is called on
FetchUrls ==
    Seeds \cup {Url("example.com", p, "") : p \in {PathA, PathB, PathC, PathP}}

InitFetch ==
    /\ \E seed \in Seeds, exts \in {PdfExtensions, AllExtensions} : InitScraper(seed, exts)
    /\ arg_url \in FetchUrls
    /\ pc = "call"

\* scraper.fetch_page(arg_url)
FetchCall ==
    /\ pc = "call"
    /\ fetchCalls = <<>>
    /\ current_url' = arg_url
    /\ fetchCalls' = Append(fetchCalls, arg_url)
    /\ i' = 0
    /\ response' = NoResponse
    /\ trace' = <<>>
    /\ pc' = "fetch"
    /\ UNCHANGED <<queue, visited_urls>>
    /\ UNCHANGED <<extractVars, downloadVars, constVars, htmlPages>>

NextFetch ==
    \/ FetchCall
    \/ FetchGet
    \/ FetchSleep
    \/ FetchExhausted

SpecFetch == InitFetch /\ [][NextFetch]_vars /\ WF_vars(NextFetch)

-----------------------------------------------------------------------------
(* get_download_folder called directly on one string after another *)

\* the characters of the drawn strings
ClassifyChars == {".", "p", "d", "f", "P"}

\* every listed extension, and every string over ClassifyChars up to MaxExtLen
ClassifyInputs ==
    AllExtensions \cup BoundedSeqs(ClassifyChars, MaxExtLen)

InitClassify ==
    /\ InitScraper(SeedExample, PdfExtensions)
    /\ arg_url = NoUrl
    /\ pc = "classify"

\* folder = scraper.get_download_folder(ext)
Classify ==
    /\ pc \in {"classify", "classified"}
    /\ \E x \in ClassifyInputs :
          /\ ext' = x
          /\ folder' = get_download_folder(x)
    /\ pc' = "classified"
    /\ UNCHANGED <<file_url, filename, dirs, files, fileGets, calls, caller>>
    /\ UNCHANGED <<runVars, fetchVars, extractVars, constVars, htmlPages>>

NextClassify == Classify

SpecClassify == InitClassify /\ [][NextClassify]_vars

-----------------------------------------------------------------------------
(* Properties of the crawl, checked under Spec *)

\* the fetch_page calls made so far, as a set
Fetched == SeqToSet(fetchCalls)

\* the number of GETs in the trace of the current (or last) fetch_page call
Gets(t) == Cardinality({k \in 1..Len(t) : t[k] # "sleep"})

\* C1: fetch_page is invoked at most once per distinct URL, however often the
\* URL is discovered: a dequeued URL is processed only if it is not yet in
\* visited_urls, and it is in visited_urls before (and while) it is fetched.
FetchedAtMostOnce ==
    /\ \A a, b \in 1..Len(fetchCalls) : fetchCalls[a] = fetchCalls[b] => a = b
    /\ Fetched \subseteq visited_urls
    /\ pc \in {"fetch", "sleep"} => current_url \in visited_urls

\* C1 witness: a URL that was already fetched waits in the queue once more
RediscoveredUrlQueued ==
    \E k \in 1..Len(queue) : queue[k] \in Fetched

\* C2: every link extract_links_and_files returns has the netloc of the seed,
\* so every URL passed to fetch_page is the seed or has the seed's netloc,
\* which is derived once from the seed.
CrawlStaysOnDomain ==
    /\ domain = base_url.netloc
    /\ \A k \in 1..Len(new_links) : new_links[k].netloc = domain
    /\ \A k \in 1..Len(queue) : queue[k] = base_url \/ queue[k].netloc = domain
    /\ \A u \in Fetched : u = base_url \/ u.netloc = domain

\* C2 witness: the page a.html, which refers to a page of another host, has
\* been extracted and has returned links
ForeignLinkPageExtracted ==
    /\ current_url = Url("example.com", PathA, "")
    /\ pc = "loop"
    /\ response.ctype = "text/html"
    /\ new_links # <<>>

\* C3 (as claimed): in the scenario (seed https://example.com, target
\* extensions [".pdf"]) /doc.pdf is downloaded to category pdf, /a.html is
\* enqueued, and no download request goes to a host other than the seed's.
ScenarioNoForeignDownload ==
    (base_url = SeedExample /\ target_extensions = PdfExtensions) =>
        /\ \A k \in 1..Len(fileGets) : fileGets[k].netloc = domain
        /\ \A f \in files : f.name = <<"d","o","c",".","p","d","f">> => f.folder = "pdf"
        /\ (current_url = SeedExample /\ pc = "loop" /\ response.ctype = "text/html") =>
              /\ new_links = << Url("example.com", PathA, "") >>
              /\ \E k \in 1..Len(calls) : calls[k].url = Url("example.com", PathDoc, "")

\* the bound on the attempts and steps of one call, and the result of a call
\* whose GETs all raised
ThreeAttemptsThenNone ==
    /\ Gets(trace) <= 3
    /\ Len(trace) <= 6
    /\ (pc = "fetched" /\ \A k \in 1..Len(trace) : trace[k] \in {"error", "sleep"}) =>
          /\ Gets(trace) = 3
          /\ response = NoResponse

\* C4: a fetch_page call whose GETs all raise makes exactly 3 GETs, never
\* fewer and never more, and then returns None; every call returns.
RetryExactlyThree ==
    /\ []ThreeAttemptsThenNone
    /\ (pc \in {"fetch", "sleep"}) ~> (pc = "fetched")

\* C4 witness: a call has returned after three failed GETs
ThreeTimeouts ==
    /\ pc = "fetched"
    /\ trace = <<"error", "sleep", "error", "sleep", "error", "sleep">>

\* C5 (as claimed): an attempt that receives a response, whatever its status,
\* is the last of its call, and a backoff precedes every further attempt.
RetryOnlyAfterTransient ==
    \A k \in 1..Len(trace) :
        /\ trace[k] \in {"200", "404", "403", "500"} => k = Len(trace)
        /\ (k > 1 /\ trace[k] # "sleep") => trace[k-1] = "sleep"

\* C6: the first attempt that receives 404 or 403 ends the call at once with
\* None, the first that receives 200 ends it with the response: no attempt and
\* no backoff follows, also after earlier transient failures.
TerminalStatusEndsCall ==
    \A k \in 1..Len(trace) :
        trace[k] \in {"200", "404", "403"} =>
            /\ k = Len(trace)
            /\ pc \notin {"fetch", "sleep"}
            /\ (trace[k] = "200") <=> (response.status = "200")
            /\ (trace[k] # "200") <=> (response = NoResponse)

\* C6 witness: a 404 after a transient failure has ended a call
NotFoundAfterTimeout ==
    /\ pc = "fetched"
    /\ trace = <<"error", "sleep", "404">>

\* C10 (as claimed): two URLs that differ only in their fragment are fetched
\* at most once between them, be they the seed or discovered links.
FragmentsShareOneFetch ==
    \A a, b \in 1..Len(fetchCalls) :
        StripFragment(fetchCalls[a]) = StripFragment(fetchCalls[b]) => a = b

-----------------------------------------------------------------------------
(* Properties of download_file, checked under SpecDownload *)

\* the calls that opened the destination for writing
Wrote == {k \in 1..Len(calls) : calls[k].outcome \in {"downloaded", "stream_failed"}}

\* the two direct calls on the same URL have both returned
TwoCallsDone ==
    /\ pc = "direct"
    /\ Len(calls) = 2
    /\ calls[1].url = calls[2].url

\* C7 (as claimed): after two calls on one URL there was exactly one write and
\* one GET, and the second call was skipped as a duplicate, whatever the first
\* call ended in (success, non-2xx status, failure while streaming).
SecondCallAlwaysSkips ==
    (TwoCallsDone /\ calls[1].outcome \in {"downloaded", "bad_status", "stream_failed"}) =>
        /\ Cardinality(Wrote) = 1
        /\ calls[2].outcome = "skipped"
        /\ Len(fileGets) = 1

\* C7 (amended): two calls on one URL write at most once.  If the first call
\* created the file (it ended in success or failed while streaming) the second
\* is skipped, issues no GET and leaves the file as it was; if the first call
\* failed before creating the file, the second issues a GET again.
SecondCallSkipsCreatedFile ==
    TwoCallsDone =>
        /\ Cardinality(Wrote) <= 1
        /\ calls[1].outcome \in {"downloaded", "stream_failed"} =>
              /\ calls[2].outcome = "skipped"
              /\ Len(fileGets) = 1
              /\ [folder |-> folder, name |-> filename,
                  complete |-> (calls[1].outcome = "downloaded")] \in files
        /\ calls[1].outcome \in {"error", "bad_status", "open_failed"} =>
              /\ calls[2].outcome # "skipped"
              /\ Len(fileGets) = 2

\* C7 witness: a download followed by a duplicate skip
DownloadedThenSkipped ==
    /\ TwoCallsDone
    /\ calls[1].outcome = "downloaded"
    /\ calls[2].outcome = "skipped"

\* the filename "../../etc/passwd"
TraversalName == <<".", ".", "/", ".", ".", "/", "e","t","c", "/", "p","a","s","s","w","d">>

\* download_file has cleaned the name that decodes to "../../etc/passwd"
TraversalNameCleaned ==
    /\ Unquote(Basename(file_url.path)) = TraversalName
    /\ pc \in {"dl_get", "dl_open", "dl_stream", "direct"}

\* C8 (as claimed): the cleaning step turns "../../etc/passwd" into "etcpasswd".
TraversalNameLosesDots ==
    TraversalNameCleaned => filename = <<"e","t","c","p","a","s","s","w","d">>

\* C8 (amended): the cleaning step turns "../../etc/passwd" into
\* "....etcpasswd": the separators are dropped, the dots are kept.
TraversalNameKeepsDots ==
    TraversalNameCleaned =>
        filename = <<".", ".", ".", ".", "e","t","c","p","a","s","s","w","d">>

\* C8 witness: the GET for the cleaned traversal name is about to be issued
TraversalNameReached ==
    /\ TraversalNameCleaned
    /\ pc = "dl_get"

\* C9: every file download_file creates is a direct child of an existing
\* category folder: the derived filename is not empty and holds no path
\* separator, and no file is created at or above a category folder.
FilesStayInCategoryFolders ==
    /\ \A f \in files :
          /\ f.folder \in (Folders \cup {"others"}) \cap dirs
          /\ f.name # <<>>
          /\ "/" \notin SeqToSet(f.name)
          /\ ~IsDirName(f.name)
    /\ pc \in {"dl_get", "dl_open", "dl_stream"} =>
          /\ filename # <<>>
          /\ "/" \notin SeqToSet(filename)

\* C9 witness: a file was created for a URL whose final segment decodes to a
\* name with a separator and a dot segment
EncodedSeparatorFileCreated ==
    /\ files # {}
    /\ \E k \in 1..(Len(arg_url.path) - 1) :
          arg_url.path[k] = "." /\ arg_url.path[k+1] = "%2F"

-----------------------------------------------------------------------------
(* Cancellation and failures of the crawl, checked under Spec *)

\* C11 (as claimed): a KeyboardInterrupt takes effect only at a loop-iteration
\* boundary, after the fetch or download in flight has completed, and leaves
\* no partially written file behind.
CancelOnlyAtLoopBoundary ==
    [][pc' = "cancelled" => (pc = "loop" /\ \A f \in files' : f.complete)]_vars

\* C12 (as claimed): no failure of a fetch, of parsing a page or resolving a
\* reference, or of a download ends the crawl: the loop ends only when the
\* queue is empty or on cancellation.
LoopEndsOnlyDrainedOrCancelled ==
    [][(pc \in RunningPcs /\ pc' \notin RunningPcs) =>
          (pc' = "cancelled" \/ (pc' = "done" /\ queue' = <<>>))]_vars

\* C14 (as claimed): the queue never holds two occurrences of a URL that is
\* not yet visited.
QueueHoldsUnvisitedOnce ==
    \A a, b \in 1..Len(queue) :
        (queue[a] = queue[b] /\ queue[a] \notin visited_urls) => a = b

\* C14 (amended): the queue may hold several occurrences of an unvisited URL;
\* what holds is that no URL is put on the queue once it is visited, and that
\* an occurrence dequeued after its URL was visited is dropped at once: no
\* fetch, nothing else changed, the loop takes the next URL.
VisitedNeverQueuedNorRefetched ==
    [][/\ \A k \in (Len(queue) + 1)..Len(queue') : queue'[k] \notin visited_urls'
       /\ (pc = "loop" /\ queue # <<>> /\ Head(queue) \in visited_urls /\ pc' # "cancelled") =>
              /\ pc' = "loop"
              /\ queue' = Tail(queue)
              /\ UNCHANGED <<fetchCalls, visited_urls, fetchVars>>]_vars

\* C14 witness: one unvisited URL waits in the queue twice
UnvisitedUrlQueuedTwice ==
    \E a, b \in 1..Len(queue) :
        /\ a # b
        /\ queue[a] = queue[b]
        /\ queue[a] \notin visited_urls

\* C15: when fetch_page gave anything but a 200 response with an HTML content
\* type, run goes straight back to its loop: nothing is enqueued, download_file
\* is not called, storage is untouched and the URL stays visited; after a 403
\* on the seed the queue is empty and there was no download at all.
NothingHappensWithoutHtml ==
    [][(/\ pc = "fetched"
        /\ ~(response # NoResponse /\ response.ctype = "text/html")
        /\ pc' # "cancelled") =>
           /\ pc' = "loop"
           /\ UNCHANGED <<queue, calls, fileGets, files>>
           /\ current_url \in visited_urls'
           /\ (fetchCalls = <<base_url>> /\ trace[Len(trace)] = "403") =>
                  (queue' = <<>> /\ calls' = <<>> /\ files' = {})]_vars

\* C15 witness: the crawl is over after a 403 on the seed
SeedForbiddenCrawlOver ==
    /\ pc = "done"
    /\ fetchCalls = <<base_url>>
    /\ trace = <<"403">>
    /\ queue = <<>>
    /\ calls = <<>>

\* C18 (as claimed): a crawl that is not cancelled ends with the queue empty,
\* and no page URL gets more than 3 GET attempts: it is fetched by one call of
\* fetch_page only, and that call issues at most 3 GETs.
UncancelledCrawlDrains ==
    /\ Gets(trace) <= retries
    /\ \A a, b \in 1..Len(fetchCalls) : fetchCalls[a] = fetchCalls[b] => a = b
    /\ pc \notin (RunningPcs \cup {"start", "cancelled"}) =>
           (pc = "done" /\ queue = <<>>)

\* the URL an anchor/link href found on page u stands for
LinkTarget(u, href) == StripFragment(urljoin(u, href))

\* C19 (as claimed): when a crawl that is not cancelled is over, every
\* same-domain URL that is no target file and is referenced on a page fetched
\* as HTML is in visited_urls.
NoDiscoveredLinkLost ==
    pc \notin (RunningPcs \cup {"start", "cancelled"}) =>
        \A u \in htmlPages : \A k \in 1..Len(Refs(u)) :
            (/\ ~Raises(Refs(u)[k])
             /\ LinkTarget(u, Refs(u)[k]) # NoUrl
             /\ is_internal_link(LinkTarget(u, Refs(u)[k]))
             /\ ~is_target_file(LinkTarget(u, Refs(u)[k]))) =>
                LinkTarget(u, Refs(u)[k]) \in visited_urls

-----------------------------------------------------------------------------
(* Properties of the destination of a download, checked under SpecDownload *)

\* C16 (as claimed): once download_file has computed the folder for a URL that
\* is_target_file accepts through a listed extension e, that folder is the
\* category of FILE_TYPES that lists e, never "others", whatever the final
\* path segment is.
TargetFileGoesToItsCategory ==
    (file_url # NoUrl /\ pc # "dl_begin" /\ is_target_file(file_url)) =>
        \A e \in target_extensions :
            EndsWith(LowerStr(file_url.path), e) =>
                (folder \in Folders /\ e \in ExtsOf(folder))

\* C17: a call of download_file that finds a file at the destination it
\* computed returns at once as a duplicate: no GET, storage unchanged.  The
\* check looks at the destination only: of two calls on distinct URLs with the
\* same derived filename and folder, the second is skipped once the first has
\* created the file, and the only GET is the first call's.
ExistingDestinationSkipsGet ==
    [][/\ (pc = "dl_begin" /\ \E f \in files : f.folder = folder' /\ f.name = filename') =>
              /\ pc' = caller
              /\ calls' = Append(calls, [url |-> file_url, outcome |-> "skipped"])
              /\ UNCHANGED <<files, fileGets, dirs>>
       /\ (/\ pc' = "direct"
           /\ Len(calls') = 2
           /\ calls'[1].url # calls'[2].url
           /\ calls'[1].outcome \in {"downloaded", "stream_failed"}) =>
              /\ calls'[2].outcome = "skipped"
              /\ fileGets' = <<calls'[1].url>>
              /\ Cardinality(files') = 1]_vars

\* C17 witness: a URL was downloaded, then another URL with the same
\* destination was skipped
AliasSkippedAfterDownload ==
    /\ pc = "direct"
    /\ Len(calls) = 2
    /\ calls[1].url # calls[2].url
    /\ calls[1].outcome = "downloaded"
    /\ calls[2].outcome = "skipped"

\* C20 (as claimed): outside a running stream, every file at a destination is
\* complete; a download that failed after the file was opened left no file.
NoPartialFileLeft ==
    pc # "dl_stream" => \A f \in files : f.complete

-----------------------------------------------------------------------------
(* Properties of get_download_folder, checked under SpecClassify *)

\* C13: get_download_folder returns, for every string, exactly one of the
\* seven categories: the one category of FILE_TYPES that lists the string (no
\* extension is listed in two), and "others" for every string not listed.
ClassifierTotal ==
    pc = "classified" =>
        /\ folder \in {"pdf", "docs", "ppt", "xls", "zip", "images", "others"}
        /\ \A f \in Folders : ext \in ExtsOf(f) => folder = f
        /\ (\A f \in Folders : ext \notin ExtsOf(f)) => folder = "others"

\* C13 witness: the beginning of a listed extension was classified as others
UnlistedPrefixClassified ==
    /\ pc = "classified"
    /\ ext = <<".", "p", "d">>
    /\ folder = "others"

====
